---- MODULE Spec2Model ----
(***************************************************************************)
(* A model of app.py, the YouTube summarizer: extract_video_id,            *)
(* get_transcript (captions first, Whisper fallback on the downloaded      *)
(* audio), download_audio, summarize_with_langchain_and_openai and main.   *)
(*                                                                         *)
(* Strings are sequences of one-character strings.  The scratch directory  *)
(* is a function from the names of the files that exist to the request     *)
(* that wrote them.  Every call of an external service (captions source,   *)
(* pytube, ffmpeg, the speech-to-text and text-generation backends, the    *)
(* opening of the audio file) is a step whose answer, success or failure,  *)
(* is chosen nondeterministically and remembered in ext, the history of    *)
(* the answers a request was given.  os.path.exists and os.remove answer   *)
(* from the directory alone: os.remove raises only on a file that is gone. *)
(* The steps of a request are atomic and run in program order; requests    *)
(* of different handlers interleave.                                       *)
(***************************************************************************)
EXTENDS Naturals, Sequences, FiniteSets, TLC

VARIABLES
    pc,          \* pc[p]: where request handler p is in the code
    rid,         \* rid[p]: number of the request p is serving (0: none yet)
    link,        \* link[p]: the text typed into the URL field (youtube_url)
    embedded,    \* embedded[p]: the id the typed text was built around, or NoId
    video_id,    \* video_id[p]: the local video_id
    tlist,       \* tlist[p]: transcript_list, [manual, generated], or None
    transcript,  \* transcript[p]: the selected caption track, or None
    audio_file,  \* audio_file[p]: what download_audio returned
    pending,     \* pending[p]: the return or exception in flight through finally
    result,      \* result[p]: what get_transcript returned, or NotReturned
    summary,     \* summary[p]: what summarize_with_langchain_and_openai returned
    shown,       \* shown[p]: what main displayed for the request
    fs,          \* the scratch directory: file name -> rid of the writer
    calls,       \* calls[p]: how often the request invoked each callee
    ext,         \* ext[p]: the answers the external calls gave the request
    foreign,     \* foreign[p]: what p did to files written by another request
    nreq         \* requests started so far

vars == << pc, rid, link, embedded, video_id, tlist, transcript, audio_file,
           pending, result, summary, shown, fs, calls, ext, foreign, nreq >>

-----------------------------------------------------------------------------
(* Bounds of the model.                                                    *)

\* Leading and trailing blanks tried around a typed URL.
MaxPad == 1
\* Leading positions of an id that range over IdSample.
MaxVary == 2
\* Requests a sequential run serves.
MaxRequests == 2
\* Tracks of one kind (manual, generated) a transcript list holds.
MaxTracks == 2

\* Length of a video id: the {11} of every pattern of extract_video_id.
IdLen == 11

-----------------------------------------------------------------------------
(* Values.                                                                 *)

\* No id, no path: the empty string.
NoId == << >>

\* What a call hands back: a value, or the exception it raised.
Returned(v) == [raised |-> FALSE, value |-> v]
\* extract_video_id's raise ValueError("Could not extract video ID from URL")
ValueError == [raised |-> TRUE, value |-> << >>]

-----------------------------------------------------------------------------
(* extract_video_id.                                                       *)

Digits == {"0","1","2","3","4","5","6","7","8","9"}
Upper == {"A","B","C","D","E","F","G","H","I","J","K","L","M","N","O","P",
          "Q","R","S","T","U","V","W","X","Y","Z"}
Lower == {"a","b","c","d","e","f","g","h","i","j","k","l","m","n","o","p",
          "q","r","s","t","u","v","w","x","y","z"}
\* The character class [0-9A-Za-z_-].
IdChars == Digits \cup Upper \cup Lower \cup {"_", "-"}

\* What str.strip() removes.
Whitespace == {" ", "\t", "\n"}

\* A mutant of strip: the input is used as typed.
strip_omitted(s) == s

\* str.strip(): the string without its leading and trailing whitespace.
strip(s) ==
    IF \A i \in 1..Len(s) : s[i] \in Whitespace THEN << >>
    ELSE LET first == CHOOSE i \in 1..Len(s) :
                         /\ s[i] \notin Whitespace
                         /\ \A j \in 1..(i - 1) : s[j] \in Whitespace
             last == CHOOSE i \in 1..Len(s) :
                         /\ s[i] \notin Whitespace
                         /\ \A j \in (i + 1)..Len(s) : s[j] \in Whitespace
         IN  SubSeq(s, first, last)

\* The literal lit stands in s at position i.
LiteralAt(lit, s, i) ==
    /\ i + Len(lit) - 1 <= Len(s)
    /\ \A k \in 1..Len(lit) : s[i + k - 1] = lit[k]

\* ([0-9A-Za-z_-]{11}) matches in s at position i.
IdRunAt(s, i) ==
    /\ i >= 1
    /\ i + IdLen - 1 <= Len(s)
    /\ \A k \in i..(i + IdLen - 1) : s[k] \in IdChars

\* The five patterns, in the order of the list: the alternatives that may
\* stand before the group, and whether the pattern is anchored (^...$).
patterns ==
    << [alts |-> << <<"v","=">>, <<"/">> >>, anchored |-> FALSE],
       [alts |-> << <<"e","m","b","e","d","/">> >>, anchored |-> FALSE],
       [alts |-> << <<"y","o","u","t","u",".","b","e","/">> >>, anchored |-> FALSE],
       [alts |-> << <<"s","h","o","r","t","s","/">> >>, anchored |-> FALSE],
       [alts |-> << << >> >>, anchored |-> TRUE] >>

\* Alternative k of pattern pat matches with the match starting at i.  An
\* anchored pattern starts at 1 and ends at the end of s, or before a
\* newline that ends s.
AltMatchesAt(pat, k, s, i) ==
    LET lit == pat.alts[k]
        last == i + Len(lit) + IdLen - 1
    IN  /\ LiteralAt(lit, s, i)
        /\ IdRunAt(s, i + Len(lit))
        /\ pat.anchored =>
              /\ i = 1
              /\ \/ last = Len(s)
                 \/ last + 1 = Len(s) /\ s[Len(s)] = "\n"

\* re.search can start a match of pat in s at position i.
MatchAt(pat, s, i) == \E k \in 1..Len(pat.alts) : AltMatchesAt(pat, k, s, i)

\* re.search(pat, s) finds a match.
Matches(pat, s) == \E i \in 1..Len(s) : MatchAt(pat, s, i)

\* match.group(1) of re.search(pat, s): the leftmost match, and at that
\* position the first alternative that matches.
Group1(pat, s) ==
    LET i == CHOOSE i \in 1..Len(s) :
                /\ MatchAt(pat, s, i)
                /\ \A j \in 1..(i - 1) : ~MatchAt(pat, s, j)
        k == CHOOSE k \in 1..Len(pat.alts) :
                /\ AltMatchesAt(pat, k, s, i)
                /\ \A j \in 1..(k - 1) : ~AltMatchesAt(pat, j, s, i)
        g == i + Len(pat.alts[k])
    IN  SubSeq(s, g, g + IdLen - 1)

\* extract_video_id(youtube_url): group 1 of the first pattern of the list
\* that matches the stripped input, or ValueError.
extract_video_id(youtube_url) ==
    LET s == strip(youtube_url)
    IN  IF \A n \in 1..Len(patterns) : ~Matches(patterns[n], s) THEN ValueError
        ELSE LET n == CHOOSE n \in 1..Len(patterns) :
                         /\ Matches(patterns[n], s)
                         /\ \A m \in 1..(n - 1) : ~Matches(patterns[m], s)
             IN  Returned(Group1(patterns[n], s))

-----------------------------------------------------------------------------
(* The texts a user can type: an id embedded in one of the recognized URL  *)
(* shapes, or a text without any id.                                       *)

BaseId == <<"d","Q","w","4","w","9","W","g","X","c","Q">>
IdSample == {"v", "-", "_"}

\* The ids tried: the first MaxVary characters range over IdSample.
SampleIds ==
    {[i \in 1..IdLen |-> IF i <= MaxVary THEN h[i] ELSE BaseId[i]] :
        h \in [1..MaxVary -> IdSample]}

Schemes ==
    { <<"h","t","t","p","s",":","/","/","w","w","w",".">>,
      <<"h","t","t","p","s",":","/","/","m",".">>,
      <<"h","t","t","p","s",":","/","/">>,
      <<"h","t","t","p",":","/","/","w","w","w",".">>,
      << >> }

Suffixes ==
    { << >>,
      <<"&","t","=","4","2","s">>,
      <<"?","s","i","=","A","b","C","d","E","f","G","h","I","j","K","l","M","n","O","p">>,
      <<"?","f","e","a","t","u","r","e","=","s","h","a","r","e">> }

UrlShapes == {"watch", "embed", "short", "shorts"}
Malformed == {"prose", "site", "tooshort", "toolong", "badchar", "watchshort"}

ShapePath(shape) ==
    CASE shape = "watch" ->
           <<"y","o","u","t","u","b","e",".","c","o","m","/","w","a","t","c","h","?","v","=">>
      [] shape = "embed" ->
           <<"y","o","u","t","u","b","e",".","c","o","m","/","e","m","b","e","d","/">>
      [] shape = "short" ->
           <<"y","o","u","t","u",".","b","e","/">>
      [] shape = "shorts" ->
           <<"y","o","u","t","u","b","e",".","c","o","m","/","s","h","o","r","t","s","/">>

Blanks(n, c) == [i \in 1..n |-> c]

\* A text without a video id.
MalformedText(kind, id) ==
    CASE kind = "prose" -> <<"n","o","t"," ","a"," ","u","r","l">>
      [] kind = "site" ->
           <<"h","t","t","p","s",":","/","/","e","x","a","m","p","l","e",".","c","o","m","/">>
      [] kind = "tooshort" -> SubSeq(id, 1, IdLen - 1)
      [] kind = "toolong" -> id \o <<"x">>
      [] kind = "badchar" -> [id EXCEPT ![IdLen] = "!"]
      [] kind = "watchshort" -> ShapePath("watch") \o SubSeq(id, 1, IdLen - 1)

\* What is typed and the id it was built around.
Typed(text, id, lead, trail) ==
    [text |-> Blanks(lead, " ") \o text \o Blanks(trail, "\n"), id |-> id]

InputsOver(ids) ==
    LET pads == (0..MaxPad) \X (0..MaxPad)
    IN  {Typed(sch \o ShapePath(sh) \o id \o suf, id, pd[1], pd[2]) :
            sch \in Schemes, sh \in UrlShapes, id \in ids, suf \in Suffixes,
            pd \in pads}
        \cup {Typed(id, id, pd[1], pd[2]) : id \in ids, pd \in pads}
        \cup {Typed(MalformedText(k, id), NoId, pd[1], pd[2]) :
                k \in Malformed, id \in ids, pd \in pads}

-----------------------------------------------------------------------------
(* Values of the pipeline.                                                 *)

\* get_transcript's return None, None.
NoneNone == [tag |-> "None", text |-> << >>, lang |-> "None"]
\* get_transcript's return of a transcript and its language code.
Value(text, lang) == [tag |-> "Value", text |-> text, lang |-> lang]
\* An exception on its way through the finally block.
Raised == [tag |-> "Raise", text |-> << >>, lang |-> "None"]
\* Nothing returned yet.
NotReturned == [tag |-> "NotReturned", text |-> << >>, lang |-> "None"]

\* The text the speech-to-text backend recognizes.
WhisperText == <<"recognized", " ", "speech">>

Langs == <<"en", "de", "fr", "es", "it">>
Words == <<"never", "gonna", "give", "you", "up">>

\* The caption tracks the captions source may offer.
ManualTrack(i) ==
    [manual |-> TRUE, lang |-> Langs[i], segs |-> <<"typed">> \o SubSeq(Words, 1, i)]
GeneratedTrack(i) ==
    [manual |-> FALSE, lang |-> Langs[i + 1], segs |-> SubSeq(Words, 1, i - 1)]
NoTrack == [manual |-> FALSE, lang |-> "None", segs |-> << >>]

\* The sequences without repetition of at most MaxTracks elements of S.
Orderings(S) ==
    UNION {{q \in [1..n -> S] : \A i, j \in 1..n : q[i] = q[j] => i = j} :
              n \in 0..MaxTracks}

\* What list_transcripts can return: the manually created tracks and the
\* generated ones, each in the order the source gave them.
TranscriptLists ==
    {[manual |-> m, generated |-> g] :
        m \in Orderings({ManualTrack(i) : i \in 1..MaxTracks}),
        g \in Orderings({GeneratedTrack(i) : i \in 1..MaxTracks})}
NoList == [manual |-> << >>, generated |-> << >>]

\* A mutant of IterOrder: the generated tracks come first.
IterOrder_generated_first(l) == l.generated \o l.manual

\* iter(transcript_list): the library's TranscriptList yields the manually
\* created tracks, then the generated ones.
IterOrder(l) == l.manual \o l.generated

RECURSIVE JoinText(_)
\* " ".join(parts)
JoinText(parts) ==
    IF Len(parts) = 0 THEN << >>
    ELSE IF Len(parts) = 1 THEN << parts[1] >>
    ELSE << parts[1], " " >> \o JoinText(Tail(parts))

\* A mutant of OutputFile: one name for every video.
OutputFile_shared(id) == <<"a","u","d","i","o",".","m","p","3">>

\* f"{video_id}.mp3"
OutputFile(id) == id \o <<".","m","p","3">>

\* f"{video_id}_temp.mp4"
TempFile(id) == id \o <<"_","t","e","m","p",".","m","p","4">>

\* os.path.exists
Exists(f) == f \in DOMAIN fs

\* The directory after request r wrote file f.
Written(f, r) == (f :> r) @@ fs

\* The directory after os.remove(f).
Removed(f) == [g \in DOMAIN fs \ {f} |-> fs[g]]
NoFiles == [g \in {} |-> 0]

NoCalls == [list |-> 0, download |-> 0, stt |-> 0, summarize |-> 0, generate |-> 0]
NoAnswers == [captions |-> "none", resolve |-> "none", download |-> "none",
              ffmpeg |-> "none", open |-> "none", stt |-> "none"]

Procs == DOMAIN pc

\* Handler p of the run stands at label l.
At(p, l) == p \in Procs /\ pc[p] = l

\* What p does to file f when another request wrote it.
Touch(p, f, how) ==
    IF Exists(f) /\ fs[f] # rid[p]
    THEN [foreign EXCEPT ![p] = @ \cup {how}]
    ELSE foreign

-----------------------------------------------------------------------------
(* main: the button, and the request it starts.                            *)

\* The locals and the history of a request of handler p, as they are
\* before the request runs and after the handler has returned.
Forget(p) ==
    /\ video_id' = [video_id EXCEPT ![p] = NoId]
    /\ tlist' = [tlist EXCEPT ![p] = NoList]
    /\ transcript' = [transcript EXCEPT ![p] = NoTrack]
    /\ audio_file' = [audio_file EXCEPT ![p] = NoId]
    /\ pending' = [pending EXCEPT ![p] = NotReturned]
    /\ result' = [result EXCEPT ![p] = NotReturned]
    /\ summary' = [summary EXCEPT ![p] = "unset"]
    /\ calls' = [calls EXCEPT ![p] = NoCalls]
    /\ ext' = [ext EXCEPT ![p] = NoAnswers]
    /\ foreign' = [foreign EXCEPT ![p] = {}]

\* A request starts with the text typed.
Fresh(p, typed) ==
    /\ link' = [link EXCEPT ![p] = typed.text]
    /\ embedded' = [embedded EXCEPT ![p] = typed.id]
    /\ Forget(p)

\* The run of the script ends: main's locals are gone with the others.
Leave(p) ==
    /\ link' = [link EXCEPT ![p] = << >>]
    /\ embedded' = [embedded EXCEPT ![p] = NoId]
    /\ Forget(p)

\* The typed texts of the sequential runs: two ids, in three shapes, and
\* three texts without an id.
SeqIds == {BaseId, [BaseId EXCEPT ![1] = "v"]}
SeqInputs ==
    {Typed(<<"h","t","t","p","s",":","/","/","w","w","w",".">> \o ShapePath("watch") \o id,
           id, 0, 0) : id \in SeqIds}
    \cup {Typed(<<"h","t","t","p","s",":","/","/">> \o ShapePath("short") \o id,
                id, 0, 0) : id \in SeqIds}
    \cup {Typed(id, id, 0, 0) : id \in SeqIds}
    \cup {Typed(MalformedText(k, BaseId), NoId, 0, 0) :
             k \in {"prose", "tooshort", "watchshort"}}

\* Generate Summary pressed with a URL typed (lines 323-333): main calls
\* get_transcript(link).
MainClick(p) ==
    /\ At(p, "idle")
    /\ nreq < MaxRequests
    /\ \E typed \in SeqInputs : Fresh(p, typed)
    /\ nreq' = nreq + 1
    /\ rid' = [rid EXCEPT ![p] = nreq + 1]
    /\ shown' = [shown EXCEPT ![p] = "nothing"]
    /\ pc' = [pc EXCEPT ![p] = "gt_extract"]
    /\ UNCHANGED fs

\* Generate Summary pressed with the field empty (lines 324, 349-350).
MainClickEmpty(p) ==
    /\ At(p, "idle")
    /\ nreq < MaxRequests
    /\ Leave(p)
    /\ nreq' = nreq + 1
    /\ rid' = [rid EXCEPT ![p] = nreq + 1]
    /\ shown' = [shown EXCEPT ![p] = "warning"]
    /\ UNCHANGED << pc, fs >>

-----------------------------------------------------------------------------
(* get_transcript: the caption attempt.                                    *)

\* A mutant of GtExtract: the failure of extract_video_id is not noticed
\* and the caption attempt goes on without an id.
GtExtract_unchecked(p) ==
    /\ At(p, "gt_extract")
    /\ video_id' = [video_id EXCEPT ![p] = extract_video_id(link[p]).value]
    /\ pc' = [pc EXCEPT ![p] = "gt_list"]
    /\ UNCHANGED << rid, link, embedded, tlist, transcript, audio_file, pending,
                    result, summary, shown, fs, calls, ext, foreign, nreq >>

\* Line 56: a ValueError is caught by the outer except (104-106).
GtExtract(p) ==
    /\ At(p, "gt_extract")
    /\ LET v == extract_video_id(link[p])
       IN  IF v.raised
           THEN /\ result' = [result EXCEPT ![p] = NoneNone]
                /\ pc' = [pc EXCEPT ![p] = "gt_return"]
                /\ UNCHANGED video_id
           ELSE /\ video_id' = [video_id EXCEPT ![p] = v.value]
                /\ pc' = [pc EXCEPT ![p] = "gt_list"]
                /\ UNCHANGED result
    /\ UNCHANGED << rid, link, embedded, tlist, transcript, audio_file, pending,
                    summary, shown, fs, calls, ext, foreign, nreq >>

\* Line 61: list_transcripts returns a transcript list.
GtListOk(p) ==
    /\ At(p, "gt_list")
    /\ \E l \in TranscriptLists : tlist' = [tlist EXCEPT ![p] = l]
    /\ calls' = [calls EXCEPT ![p].list = @ + 1]
    /\ pc' = [pc EXCEPT ![p] = "gt_select"]
    /\ UNCHANGED << rid, link, embedded, video_id, transcript, audio_file, pending,
                    result, summary, shown, fs, ext, foreign, nreq >>

\* Line 61 raises: the except of line 74 starts the fallback.
GtListRaises(p) ==
    /\ At(p, "gt_list")
    /\ calls' = [calls EXCEPT ![p].list = @ + 1]
    /\ ext' = [ext EXCEPT ![p].captions = "fail"]
    /\ pc' = [pc EXCEPT ![p] = "gt_fallback"]
    /\ UNCHANGED << rid, link, embedded, video_id, tlist, transcript, audio_file,
                    pending, result, summary, shown, fs, foreign, nreq >>

\* Line 63: find_manually_created_transcript returns a manual track.
GtFindManual(p) ==
    /\ At(p, "gt_select")
    /\ \E i \in 1..Len(tlist[p].manual) :
          transcript' = [transcript EXCEPT ![p] = tlist[p].manual[i]]
    /\ pc' = [pc EXCEPT ![p] = "gt_fetch"]
    /\ UNCHANGED << rid, link, embedded, video_id, tlist, audio_file, pending,
                    result, summary, shown, fs, calls, ext, foreign, nreq >>

\* Line 63 raises (it is called without language codes, and the bare except
\* of line 65 takes any exception): line 66 takes the first track of the
\* iteration, and its StopIteration on an empty list goes to line 74.
GtFindRaises(p) ==
    /\ At(p, "gt_select")
    /\ IF Len(IterOrder(tlist[p])) = 0
       THEN /\ ext' = [ext EXCEPT ![p].captions = "fail"]
            /\ pc' = [pc EXCEPT ![p] = "gt_fallback"]
            /\ UNCHANGED transcript
       ELSE /\ transcript' = [transcript EXCEPT ![p] = Head(IterOrder(tlist[p]))]
            /\ pc' = [pc EXCEPT ![p] = "gt_fetch"]
            /\ UNCHANGED ext
    /\ UNCHANGED << rid, link, embedded, video_id, tlist, audio_file, pending,
                    result, summary, shown, fs, calls, foreign, nreq >>

\* A mutant of GtFetchOk: the transcript is built but not returned, and the
\* fallback runs as well.
GtFetchOk_no_return(p) ==
    /\ At(p, "gt_fetch")
    /\ result' = [result EXCEPT
                     ![p] = Value(JoinText(transcript[p].segs), transcript[p].lang)]
    /\ ext' = [ext EXCEPT ![p].captions = "ok"]
    /\ pc' = [pc EXCEPT ![p] = "gt_fallback"]
    /\ UNCHANGED << rid, link, embedded, video_id, tlist, transcript, audio_file,
                    pending, summary, shown, fs, calls, foreign, nreq >>

\* Lines 69-72: the segments are fetched and joined.
GtFetchOk(p) ==
    /\ At(p, "gt_fetch")
    /\ result' = [result EXCEPT
                     ![p] = Value(JoinText(transcript[p].segs), transcript[p].lang)]
    /\ ext' = [ext EXCEPT ![p].captions = "ok"]
    /\ pc' = [pc EXCEPT ![p] = "gt_return"]
    /\ UNCHANGED << rid, link, embedded, video_id, tlist, transcript, audio_file,
                    pending, summary, shown, fs, calls, foreign, nreq >>

\* Line 69 raises: the except of line 74 starts the fallback.
GtFetchRaises(p) ==
    /\ At(p, "gt_fetch")
    /\ ext' = [ext EXCEPT ![p].captions = "fail"]
    /\ pc' = [pc EXCEPT ![p] = "gt_fallback"]
    /\ UNCHANGED << rid, link, embedded, video_id, tlist, transcript, audio_file,
                    pending, result, summary, shown, fs, calls, foreign, nreq >>

-----------------------------------------------------------------------------
(* download_audio.                                                         *)

\* Lines 74-80: the fallback calls download_audio(youtube_url).  The
\* transcript list and the track of the caption attempt are not read again
\* (transcript is next assigned at line 86) and are dropped here.
GtFallback(p) ==
    /\ At(p, "gt_fallback")
    /\ calls' = [calls EXCEPT ![p].download = @ + 1]
    /\ tlist' = [tlist EXCEPT ![p] = NoList]
    /\ transcript' = [transcript EXCEPT ![p] = NoTrack]
    /\ pc' = [pc EXCEPT ![p] = "da_extract"]
    /\ UNCHANGED << rid, link, embedded, video_id, audio_file,
                    pending, result, summary, shown, fs, ext, foreign, nreq >>

\* Line 260: a ValueError is caught at line 295 and None returned.
DaExtract(p) ==
    /\ At(p, "da_extract")
    /\ LET v == extract_video_id(link[p])
       IN  IF v.raised
           THEN /\ audio_file' = [audio_file EXCEPT ![p] = NoId]
                /\ pc' = [pc EXCEPT ![p] = "gt_check_audio"]
                /\ UNCHANGED video_id
           ELSE /\ video_id' = [video_id EXCEPT ![p] = v.value]
                /\ pc' = [pc EXCEPT ![p] = "da_resolve"]
                /\ UNCHANGED audio_file
    /\ UNCHANGED << rid, link, embedded, tlist, transcript, pending, result,
                    summary, shown, fs, calls, ext, foreign, nreq >>

\* Lines 267-273: pytube offers an audio-only stream.
DaResolveOk(p) ==
    /\ At(p, "da_resolve")
    /\ ext' = [ext EXCEPT ![p].resolve = "ok"]
    /\ pc' = [pc EXCEPT ![p] = "da_download"]
    /\ UNCHANGED << rid, link, embedded, video_id, tlist, transcript, audio_file,
                    pending, result, summary, shown, fs, calls, foreign, nreq >>

\* Lines 267-273 raise (pytube fails, or no audio stream is found): None is
\* returned by the except of line 295.
DaResolveFails(p) ==
    /\ At(p, "da_resolve")
    /\ ext' = [ext EXCEPT ![p].resolve = "fail"]
    /\ audio_file' = [audio_file EXCEPT ![p] = NoId]
    /\ pc' = [pc EXCEPT ![p] = "gt_check_audio"]
    /\ UNCHANGED << rid, link, embedded, video_id, tlist, transcript, pending,
                    result, summary, shown, fs, calls, foreign, nreq >>

\* Lines 276-280: the stream is written to <video_id>_temp.mp4.
DaDownloadOk(p) ==
    /\ At(p, "da_download")
    /\ fs' = Written(TempFile(video_id[p]), rid[p])
    /\ foreign' = Touch(p, TempFile(video_id[p]), "overwrite")
    /\ ext' = [ext EXCEPT ![p].download = "ok"]
    /\ pc' = [pc EXCEPT ![p] = "da_ffmpeg"]
    /\ UNCHANGED << rid, link, embedded, video_id, tlist, transcript, audio_file,
                    pending, result, summary, shown, calls, nreq >>

\* Lines 277-280 raise, with the file begun or not: None is returned by the
\* except of line 295.
DaDownloadFails(p) ==
    /\ At(p, "da_download")
    /\ \E begun \in BOOLEAN :
          IF begun
          THEN /\ fs' = Written(TempFile(video_id[p]), rid[p])
               /\ foreign' = Touch(p, TempFile(video_id[p]), "overwrite")
          ELSE UNCHANGED << fs, foreign >>
    /\ ext' = [ext EXCEPT ![p].download = "fail"]
    /\ audio_file' = [audio_file EXCEPT ![p] = NoId]
    /\ pc' = [pc EXCEPT ![p] = "gt_check_audio"]
    /\ UNCHANGED << rid, link, embedded, video_id, tlist, transcript, pending,
                    result, summary, shown, calls, nreq >>

\* Line 283: ffmpeg reads the downloaded file and writes <video_id>.mp3.
DaFfmpegOk(p) ==
    /\ At(p, "da_ffmpeg")
    /\ Exists(TempFile(video_id[p]))
    /\ fs' = Written(OutputFile(video_id[p]), rid[p])
    /\ foreign' = [foreign EXCEPT ![p] =
          @ \cup (IF fs[TempFile(video_id[p])] # rid[p] THEN {"read"} ELSE {})
            \cup (IF Exists(OutputFile(video_id[p]))
                     /\ fs[OutputFile(video_id[p])] # rid[p]
                  THEN {"overwrite"} ELSE {})]
    /\ ext' = [ext EXCEPT ![p].ffmpeg = "ok"]
    /\ pc' = [pc EXCEPT ![p] = "da_exists_temp"]
    /\ UNCHANGED << rid, link, embedded, video_id, tlist, transcript, audio_file,
                    pending, result, summary, shown, calls, nreq >>

\* Line 283: ffmpeg fails, or finds no input; os.system does not raise and
\* the output is not written.
DaFfmpegFails(p) ==
    /\ At(p, "da_ffmpeg")
    /\ ext' = [ext EXCEPT ![p].ffmpeg =
                  IF Exists(TempFile(video_id[p])) THEN "fail" ELSE "noinput"]
    /\ pc' = [pc EXCEPT ![p] = "da_exists_temp"]
    /\ UNCHANGED << rid, link, embedded, video_id, tlist, transcript, audio_file,
                    pending, result, summary, shown, fs, calls, foreign, nreq >>

\* A mutant of DaExistsTemp: the downloaded file is cleaned up only when the
\* conversion wrote its output.
DaExistsTemp_on_success(p) ==
    /\ At(p, "da_exists_temp")
    /\ pc' = [pc EXCEPT ![p] = IF /\ Exists(TempFile(video_id[p]))
                                  /\ Exists(OutputFile(video_id[p]))
                               THEN "da_remove_temp" ELSE "da_exists_out"]
    /\ UNCHANGED << rid, link, embedded, video_id, tlist, transcript, audio_file,
                    pending, result, summary, shown, fs, calls, ext, foreign, nreq >>

\* Line 286: os.path.exists(downloaded_file).
DaExistsTemp(p) ==
    /\ At(p, "da_exists_temp")
    /\ pc' = [pc EXCEPT ![p] = IF Exists(TempFile(video_id[p]))
                               THEN "da_remove_temp" ELSE "da_exists_out"]
    /\ UNCHANGED << rid, link, embedded, video_id, tlist, transcript, audio_file,
                    pending, result, summary, shown, fs, calls, ext, foreign, nreq >>

\* A mutant of DaRemoveTemp: os.remove is given output_file.
DaRemoveTemp_output(p) ==
    /\ At(p, "da_remove_temp")
    /\ IF Exists(OutputFile(video_id[p]))
       THEN /\ fs' = Removed(OutputFile(video_id[p]))
            /\ foreign' = Touch(p, OutputFile(video_id[p]), "delete")
            /\ pc' = [pc EXCEPT ![p] = "da_exists_out"]
            /\ UNCHANGED audio_file
       ELSE /\ audio_file' = [audio_file EXCEPT ![p] = NoId]
            /\ pc' = [pc EXCEPT ![p] = "gt_check_audio"]
            /\ UNCHANGED << fs, foreign >>
    /\ UNCHANGED << rid, link, embedded, video_id, tlist, transcript, pending,
                    result, summary, shown, calls, ext, nreq >>

\* Line 287: os.remove(downloaded_file); on a file that is gone it raises,
\* and None is returned by the except of line 295.
DaRemoveTemp(p) ==
    /\ At(p, "da_remove_temp")
    /\ IF Exists(TempFile(video_id[p]))
       THEN /\ fs' = Removed(TempFile(video_id[p]))
            /\ foreign' = Touch(p, TempFile(video_id[p]), "delete")
            /\ pc' = [pc EXCEPT ![p] = "da_exists_out"]
            /\ UNCHANGED audio_file
       ELSE /\ audio_file' = [audio_file EXCEPT ![p] = NoId]
            /\ pc' = [pc EXCEPT ![p] = "gt_check_audio"]
            /\ UNCHANGED << fs, foreign >>
    /\ UNCHANGED << rid, link, embedded, video_id, tlist, transcript, pending,
                    result, summary, shown, calls, ext, nreq >>

\* Lines 289-297: the path of the output when it exists, else None.
DaExistsOut(p) ==
    /\ At(p, "da_exists_out")
    /\ audio_file' = [audio_file EXCEPT ![p] =
                         IF Exists(OutputFile(video_id[p]))
                         THEN OutputFile(video_id[p]) ELSE NoId]
    /\ pc' = [pc EXCEPT ![p] = "gt_check_audio"]
    /\ UNCHANGED << rid, link, embedded, video_id, tlist, transcript, pending,
                    result, summary, shown, fs, calls, ext, foreign, nreq >>

-----------------------------------------------------------------------------
(* get_transcript: the fallback after download_audio.                      *)

\* Lines 82, 97-102: without a file, "Audio download failed" is caught and
\* None, None returned.
GtCheckAudio(p) ==
    /\ At(p, "gt_check_audio")
    /\ IF audio_file[p] # NoId /\ Exists(audio_file[p])
       THEN /\ pc' = [pc EXCEPT ![p] = "gt_open"]
            /\ UNCHANGED result
       ELSE /\ result' = [result EXCEPT ![p] = NoneNone]
            /\ pc' = [pc EXCEPT ![p] = "gt_return"]
    /\ UNCHANGED << rid, link, embedded, video_id, tlist, transcript, audio_file,
                    pending, summary, shown, fs, calls, ext, foreign, nreq >>

\* Line 85: open(audio_file, "rb").
GtOpenOk(p) ==
    /\ At(p, "gt_open")
    /\ Exists(audio_file[p])
    /\ foreign' = Touch(p, audio_file[p], "read")
    /\ ext' = [ext EXCEPT ![p].open = "ok"]
    /\ pc' = [pc EXCEPT ![p] = "gt_stt"]
    /\ UNCHANGED << rid, link, embedded, video_id, tlist, transcript, audio_file,
                    pending, result, summary, shown, fs, calls, nreq >>

\* Line 85 raises (the file is gone, or cannot be opened): the exception
\* passes through the finally of line 93.
GtOpenFails(p) ==
    /\ At(p, "gt_open")
    /\ ext' = [ext EXCEPT ![p].open =
                  IF Exists(audio_file[p]) THEN "fail" ELSE "nofile"]
    /\ pending' = [pending EXCEPT ![p] = Raised]
    /\ pc' = [pc EXCEPT ![p] = "gt_fin_exists"]
    /\ UNCHANGED << rid, link, embedded, video_id, tlist, transcript, audio_file,
                    result, summary, shown, fs, calls, foreign, nreq >>

\* Lines 86-92: Whisper returns the text; return transcript, 'en' is in
\* flight through the finally.
GtSttOk(p) ==
    /\ At(p, "gt_stt")
    /\ calls' = [calls EXCEPT ![p].stt = @ + 1]
    /\ ext' = [ext EXCEPT ![p].stt = "ok"]
    /\ pending' = [pending EXCEPT ![p] = Value(WhisperText, "en")]
    /\ pc' = [pc EXCEPT ![p] = "gt_fin_exists"]
    /\ UNCHANGED << rid, link, embedded, video_id, tlist, transcript, audio_file,
                    result, summary, shown, fs, foreign, nreq >>

\* A mutant of GtSttFails: a failed transcription is tried once more.
GtSttFails_retry(p) ==
    /\ At(p, "gt_stt")
    /\ calls' = [calls EXCEPT ![p].stt = @ + 1]
    /\ ext' = [ext EXCEPT ![p].stt = "fail"]
    /\ IF calls[p].stt = 0
       THEN UNCHANGED << pending, pc >>
       ELSE /\ pending' = [pending EXCEPT ![p] = Raised]
            /\ pc' = [pc EXCEPT ![p] = "gt_fin_exists"]
    /\ UNCHANGED << rid, link, embedded, video_id, tlist, transcript, audio_file,
                    result, summary, shown, fs, foreign, nreq >>

\* Lines 86-90 raise.
GtSttFails(p) ==
    /\ At(p, "gt_stt")
    /\ calls' = [calls EXCEPT ![p].stt = @ + 1]
    /\ ext' = [ext EXCEPT ![p].stt = "fail"]
    /\ pending' = [pending EXCEPT ![p] = Raised]
    /\ pc' = [pc EXCEPT ![p] = "gt_fin_exists"]
    /\ UNCHANGED << rid, link, embedded, video_id, tlist, transcript, audio_file,
                    result, summary, shown, fs, foreign, nreq >>

\* How the try of line 83 ends once the finally is through: the return in
\* flight, or None, None from the except of line 100.
Finish(pend) == IF pend.tag = "Raise" THEN NoneNone ELSE pend

\* A mutant of GtFinExists: the cleanup follows the transcription instead
\* of standing in a finally, and an exception passes it by.
GtFinExists_no_finally(p) ==
    /\ At(p, "gt_fin_exists")
    /\ IF Exists(audio_file[p]) /\ pending[p].tag # "Raise"
       THEN /\ pc' = [pc EXCEPT ![p] = "gt_fin_remove"]
            /\ UNCHANGED result
       ELSE /\ result' = [result EXCEPT ![p] = Finish(pending[p])]
            /\ pc' = [pc EXCEPT ![p] = "gt_return"]
    /\ UNCHANGED << rid, link, embedded, video_id, tlist, transcript, audio_file,
                    pending, summary, shown, fs, calls, ext, foreign, nreq >>

\* Line 95: os.path.exists(audio_file) in the finally.
GtFinExists(p) ==
    /\ At(p, "gt_fin_exists")
    /\ IF Exists(audio_file[p])
       THEN /\ pc' = [pc EXCEPT ![p] = "gt_fin_remove"]
            /\ UNCHANGED result
       ELSE /\ result' = [result EXCEPT ![p] = Finish(pending[p])]
            /\ pc' = [pc EXCEPT ![p] = "gt_return"]
    /\ UNCHANGED << rid, link, embedded, video_id, tlist, transcript, audio_file,
                    pending, summary, shown, fs, calls, ext, foreign, nreq >>

\* Line 96: os.remove(audio_file); on a file that is gone it raises, which
\* replaces the return in flight and is caught at line 100.
GtFinRemove(p) ==
    /\ At(p, "gt_fin_remove")
    /\ IF Exists(audio_file[p])
       THEN /\ fs' = Removed(audio_file[p])
            /\ foreign' = Touch(p, audio_file[p], "delete")
            /\ result' = [result EXCEPT ![p] = Finish(pending[p])]
       ELSE /\ result' = [result EXCEPT ![p] = NoneNone]
            /\ UNCHANGED << fs, foreign >>
    /\ pc' = [pc EXCEPT ![p] = "gt_return"]
    /\ UNCHANGED << rid, link, embedded, video_id, tlist, transcript, audio_file,
                    pending, summary, shown, calls, ext, nreq >>

-----------------------------------------------------------------------------
(* main after get_transcript, and summarize_with_langchain_and_openai.     *)

\* Lines 333-342: main takes the transcript and calls
\* summarize_with_langchain_and_openai with it.
MainSummarize(p) ==
    /\ At(p, "gt_return")
    /\ calls' = [calls EXCEPT ![p].summarize = @ + 1]
    /\ pc' = [pc EXCEPT ![p] = "sm_split"]
    /\ UNCHANGED << rid, link, embedded, video_id, tlist, transcript, audio_file,
                    pending, result, summary, shown, fs, ext, foreign, nreq >>

\* Lines 229-237: split_text(transcript) outside the try; on None it raises
\* a TypeError, which main catches and reports (lines 347-348) before it
\* returns.
SmSplit(p) ==
    /\ At(p, "sm_split")
    /\ IF result[p].tag = "None"
       THEN /\ shown' = [shown EXCEPT ![p] = "error"]
            /\ pc' = [pc EXCEPT ![p] = "idle"]
            /\ Leave(p)
       ELSE /\ pc' = [pc EXCEPT ![p] = "sm_generate"]
            /\ UNCHANGED << shown, link, embedded, video_id, tlist, transcript,
                            audio_file, pending, result, summary, calls, ext,
                            foreign >>
    /\ UNCHANGED << rid, fs, nreq >>

\* Lines 240-251: the text-generation backend answers.
SmGenerateOk(p) ==
    /\ At(p, "sm_generate")
    /\ calls' = [calls EXCEPT ![p].generate = @ + 1]
    /\ summary' = [summary EXCEPT ![p] = "text"]
    /\ pc' = [pc EXCEPT ![p] = "main_show"]
    /\ UNCHANGED << rid, link, embedded, video_id, tlist, transcript, audio_file,
                    pending, result, shown, fs, ext, foreign, nreq >>

\* Lines 240-254: the backend raises, and None is returned.
SmGenerateFails(p) ==
    /\ At(p, "sm_generate")
    /\ calls' = [calls EXCEPT ![p].generate = @ + 1]
    /\ summary' = [summary EXCEPT ![p] = "None"]
    /\ pc' = [pc EXCEPT ![p] = "main_show"]
    /\ UNCHANGED << rid, link, embedded, video_id, tlist, transcript, audio_file,
                    pending, result, shown, fs, ext, foreign, nreq >>

\* Lines 344-346: st.markdown(summary), and the handler returns.
MainShow(p) ==
    /\ At(p, "main_show")
    /\ shown' = [shown EXCEPT ![p] = IF summary[p] = "text" THEN "summary" ELSE "none"]
    /\ pc' = [pc EXCEPT ![p] = "idle"]
    /\ Leave(p)
    /\ UNCHANGED << rid, fs, nreq >>

-----------------------------------------------------------------------------
(* The specifications.                                                     *)

\* The state of the handlers ps before any request.
Start(ps) ==
    /\ video_id = [p \in ps |-> NoId]
    /\ tlist = [p \in ps |-> NoList]
    /\ transcript = [p \in ps |-> NoTrack]
    /\ audio_file = [p \in ps |-> NoId]
    /\ pending = [p \in ps |-> NotReturned]
    /\ result = [p \in ps |-> NotReturned]
    /\ summary = [p \in ps |-> "unset"]
    /\ shown = [p \in ps |-> "nothing"]
    /\ calls = [p \in ps |-> NoCalls]
    /\ ext = [p \in ps |-> NoAnswers]
    /\ foreign = [p \in ps |-> {}]
    /\ fs = NoFiles

\* One handler serving one request after the other.
Init ==
    /\ Start({1})
    /\ pc = [p \in {1} |-> "idle"]
    /\ rid = [p \in {1} |-> 0]
    /\ link = [p \in {1} |-> << >>]
    /\ embedded = [p \in {1} |-> NoId]
    /\ nreq = 0

GetTranscript(p) ==
    \/ GtExtract(p) \/ GtListOk(p) \/ GtListRaises(p) \/ GtFindManual(p)
    \/ GtFindRaises(p) \/ GtFetchOk(p) \/ GtFetchRaises(p) \/ GtFallback(p)
    \/ GtCheckAudio(p) \/ GtOpenOk(p) \/ GtOpenFails(p) \/ GtSttOk(p)
    \/ GtSttFails(p) \/ GtFinExists(p) \/ GtFinRemove(p)

DownloadAudio(p) ==
    \/ DaExtract(p) \/ DaResolveOk(p) \/ DaResolveFails(p) \/ DaDownloadOk(p)
    \/ DaDownloadFails(p) \/ DaFfmpegOk(p) \/ DaFfmpegFails(p)
    \/ DaExistsTemp(p) \/ DaRemoveTemp(p) \/ DaExistsOut(p)

Main(p) ==
    \/ MainClick(p) \/ MainClickEmpty(p) \/ MainSummarize(p) \/ SmSplit(p)
    \/ SmGenerateOk(p) \/ SmGenerateFails(p) \/ MainShow(p)

\* The handlers there can be; those of a run are Procs.
Handlers == {1, 2}

Next == \E p \in Handlers : Main(p) \/ GetTranscript(p) \/ DownloadAudio(p)

Spec == Init /\ [][Next]_vars

\* extract_video_id alone, on every typed text of the sample: one handler
\* at line 56.
InitExtract ==
    /\ Start({1})
    /\ pc = [p \in {1} |-> "gt_extract"]
    /\ rid = [p \in {1} |-> 1]
    /\ \E typed \in InputsOver(SampleIds) :
          /\ link = [p \in {1} |-> typed.text]
          /\ embedded = [p \in {1} |-> typed.id]
    /\ nreq = 1

NextExtract == \E p \in Handlers : GtExtract(p)

SpecExtract == InitExtract /\ [][NextExtract]_vars

\* The typed texts of the concurrent runs: two ids, bare and in a watch URL.
ConcInputs ==
    {Typed(<<"h","t","t","p","s",":","/","/","w","w","w",".">> \o ShapePath("watch") \o id,
           id, 0, 0) : id \in SeqIds}
    \cup {Typed(id, id, 0, 0) : id \in SeqIds}

\* Two handlers (two sessions of the server), each in get_transcript for a
\* video without captions, sharing the scratch directory.
InitConc ==
    /\ Start(Handlers)
    /\ pc = [p \in Handlers |-> "gt_extract"]
    /\ rid = [p \in Handlers |-> p]
    /\ \E typed \in [Handlers -> ConcInputs] :
          /\ link = [p \in Handlers |-> typed[p].text]
          /\ embedded = [p \in Handlers |-> typed[p].id]
    /\ nreq = Cardinality(Handlers)

Fallback(p) ==
    \/ GtExtract(p) \/ GtListRaises(p) \/ GtFallback(p) \/ GtCheckAudio(p)
    \/ GtOpenOk(p) \/ GtOpenFails(p) \/ GtSttOk(p) \/ GtSttFails(p)
    \/ GtFinExists(p) \/ GtFinRemove(p)

NextConc == \E p \in Handlers : Fallback(p) \/ DownloadAudio(p)

SpecConc == InitConc /\ [][NextConc]_vars

-----------------------------------------------------------------------------
(* The properties.                                                         *)

\* The labels of the fallback: from the except of line 74 to the return of
\* line 92 or 102.
FallbackLabels ==
    {"gt_fallback", "da_extract", "da_resolve", "da_download", "da_ffmpeg",
     "da_exists_temp", "da_remove_temp", "da_exists_out", "gt_check_audio",
     "gt_open", "gt_stt", "gt_fin_exists", "gt_fin_remove"}

\* The labels at which get_transcript has returned to main.
ReturnedLabels == {"gt_return", "sm_split", "sm_generate", "main_show"}

\* An external service of the fallback answered request p with a failure.
ExtFailed(p) ==
    \E k \in {"resolve", "download", "ffmpeg", "open", "stt"} : ext[p][k] = "fail"

\* f is the name of a converted audio file.
IsOutputName(f) ==
    /\ Len(f) >= 4
    /\ SubSeq(f, Len(f) - 3, Len(f)) = <<".","m","p","3">>

\* What get_transcript returns for track t.
OfTrack(t) == Value(JoinText(t.segs), t.lang)

\* C1: once the caption attempt of a request has succeeded, get_transcript
\* has returned the joined text and the language code of the selected track,
\* download_audio and the speech-to-text backend have not been invoked, and
\* the request is never in the fallback; a request in the fallback has had
\* its caption attempt fail.
C1_CaptionSuccessSkipsFallback ==
    \A p \in Procs :
       /\ ext[p].captions = "ok" =>
             /\ pc[p] \in ReturnedLabels
             /\ result[p] = OfTrack(transcript[p])
             /\ calls[p].download = 0
             /\ calls[p].stt = 0
       /\ pc[p] \in FallbackLabels => ext[p].captions = "fail"

\* C1 witness: get_transcript has returned the captions of a track.
C1_Witness ==
    \E p \in Procs :
       /\ pc[p] = "gt_return"
       /\ ext[p].captions = "ok"
       /\ result[p].tag = "Value"
       /\ Len(result[p].text) > 1

\* C2 as stated: after a failed caption attempt download_audio has been
\* invoked exactly once and, when it returned a file, the speech-to-text
\* backend exactly once; the request ends with the recognized text and 'en'
\* or with None, None.
C2_SttOnceWheneverDownloaded ==
    \A p \in Procs :
       (pc[p] = "gt_return" /\ ext[p].captions = "fail") =>
          /\ calls[p].download = 1
          /\ audio_file[p] # NoId => calls[p].stt = 1
          /\ result[p] \in {Value(WhisperText, "en"), NoneNone}

\* C2 amended: no callee is ever invoked twice in a request; after a failed
\* caption attempt download_audio has been invoked exactly once, and the
\* speech-to-text backend exactly once when download_audio returned a file
\* and the file could be opened, and not at all otherwise; the request ends
\* with the recognized text and 'en' or with None, None.
C2_SttOnceWhenOpened ==
    \A p \in Procs :
       /\ calls[p].list <= 1 /\ calls[p].download <= 1 /\ calls[p].stt <= 1
       /\ (pc[p] = "gt_return" /\ ext[p].captions = "fail") =>
             /\ calls[p].download = 1
             /\ calls[p].stt = IF audio_file[p] # NoId /\ ext[p].open = "ok"
                               THEN 1 ELSE 0
             /\ result[p] \in {Value(WhisperText, "en"), NoneNone}
             /\ result[p] = Value(WhisperText, "en") <=> ext[p].stt = "ok"

\* C2 witness: the fallback has returned the recognized text.
C2_Witness ==
    \E p \in Procs :
       /\ pc[p] = "gt_return"
       /\ ext[p].captions = "fail"
       /\ calls[p].stt = 1
       /\ result[p] = Value(WhisperText, "en")

\* C3: in a run of one request after the other, no converted audio file
\* exists while no request is inside the fallback: none after get_transcript
\* has returned, whatever step of the fallback failed, and none later.
C3_NoArtifactOutlivesRequest ==
    \A p \in Procs :
       pc[p] \notin FallbackLabels => \A f \in DOMAIN fs : ~IsOutputName(f)

\* C3 witness: the fallback of the second request converted the audio, failed
\* afterwards and has returned.
C3_Witness ==
    \E p \in Procs :
       /\ pc[p] = "gt_return"
       /\ rid[p] = 2
       /\ ext[p].ffmpeg = "ok"
       /\ result[p] = NoneNone

\* C4 as stated: when get_transcript has returned None, None the request
\* invokes neither summarize_with_langchain_and_openai nor the
\* text-generation backend and shows no summary.
C4_NoSummarizeWithoutTranscript ==
    \A p \in Procs :
       result[p] = NoneNone =>
          /\ calls[p].summarize = 0
          /\ calls[p].generate = 0
          /\ shown[p] # "summary"

C6_ExtractsEmbeddedId ==
    \A p \in Procs :
       (embedded[p] # NoId /\ pc[p] # "gt_extract") =>
          /\ pc[p] = "gt_list"
          /\ video_id[p] = embedded[p]

\* C6 witness: the id is returned from a padded URL that more than one
\* pattern matches.
C6_Witness ==
    \E p \in Procs :
       /\ pc[p] = "gt_list"
       /\ video_id[p] = embedded[p]
       /\ link[p] # strip(link[p])
       /\ Cardinality({n \in 1..Len(patterns) :
                          Matches(patterns[n], strip(link[p]))}) > 1

\* C7: for a typed text without an id, which no pattern matches,
\* get_transcript returns None, None to main, and the captions source,
\* download_audio and the speech-to-text backend are not invoked.
C7_NoIdReturnsNone ==
    \A p \in Procs :
       (pc[p] \notin {"idle", "gt_extract"} /\ embedded[p] = NoId) =>
          /\ pc[p] \in ReturnedLabels
          /\ result[p] = NoneNone
          /\ calls[p].list = 0
          /\ calls[p].download = 0
          /\ calls[p].stt = 0

\* C7 witness: get_transcript has returned for a text without an id.
C7_Witness ==
    \E p \in Procs :
       /\ pc[p] = "gt_return"
       /\ embedded[p] = NoId
       /\ Len(link[p]) > 0
       /\ result[p] = NoneNone

\* C8: when download_audio has returned after a conversion attempt, the
\* downloaded file is gone; the converted file exists and is what was
\* returned if the conversion wrote it, and otherwise None was returned.
C8_DownloadedFileRemoved ==
    \A p \in Procs :
       (pc[p] = "gt_check_audio" /\ ext[p].ffmpeg # "none") =>
          /\ ~Exists(TempFile(video_id[p]))
          /\ ext[p].ffmpeg = "ok" =>
                audio_file[p] = OutputFile(video_id[p]) /\ Exists(audio_file[p])
          /\ ext[p].ffmpeg # "ok" =>
                audio_file[p] = NoId /\ ~Exists(OutputFile(video_id[p]))

\* C8 witness: download_audio has returned None after a failed conversion.
C8_Witness ==
    \E p \in Procs :
       /\ pc[p] = "gt_check_audio"
       /\ ext[p].ffmpeg = "fail"
       /\ audio_file[p] = NoId

\* C9: of two concurrent requests for different ids, neither reads,
\* overwrites or deletes a file the other wrote, neither finds a file of its
\* own gone, and each returns what the answers of its external calls alone
\* decide: None, None if one of them failed, the recognized text otherwise.
C9_DifferentIdsDoNotInterfere ==
    (\A p, q \in Procs : p # q => embedded[p] # embedded[q]) =>
       \A p \in Procs :
          /\ foreign[p] = {}
          /\ ext[p].ffmpeg # "noinput"
          /\ ext[p].open # "nofile"
          /\ pc[p] = "gt_return" =>
                result[p] = IF ExtFailed(p) THEN NoneNone
                            ELSE Value(WhisperText, "en")

\* C9 witness: two requests for different ids hold their converted files at
\* the same time.
C9_Witness ==
    /\ Procs = Handlers
    /\ embedded[1] # embedded[2]
    /\ pc[1] = "gt_fin_remove"
    /\ pc[2] = "gt_fin_remove"
    /\ Exists(audio_file[1])
    /\ Exists(audio_file[2])

\* C10: a request whose external calls all succeeded returns None, None only
\* when a concurrent request for the same id overwrote or deleted a scratch
\* file written by another request.
C10_FailsOnlyBySameIdRace ==
    \A p \in Procs :
       (pc[p] = "gt_return" /\ result[p] = NoneNone /\ ~ExtFailed(p)) =>
          \E q \in Procs \ {p} :
             /\ embedded[q] = embedded[p]
             /\ (foreign[p] \cup foreign[q]) \cap {"overwrite", "delete"} # {}

\* C10 witness: two requests for one id have returned, every external call
\* of both succeeded, and one of them returned None, None.
C10_Witness ==
    /\ Procs = Handlers
    /\ embedded[1] = embedded[2]
    /\ pc[1] = "gt_return"
    /\ pc[2] = "gt_return"
    /\ \A p \in Procs : ~ExtFailed(p) /\ ext[p].resolve = "ok" /\ ext[p].download = "ok"
    /\ \E p \in Procs : result[p] = NoneNone

====
